---------------------------- MODULE Spec2Model ----------------------------
(* A model of the film service of fastapi_theory: the cache-aside entity    *)
(* lookup (get_by_uuid) and the cursor-caching paginator (get_page) of      *)
(* src/src/services/film.py, with the formatters of                         *)
(* src/src/utils/formatters.py, over a Redis-like key/value store and an    *)
(* Elasticsearch-like index.  Every await of the service is one step, so    *)
(* that concurrent requests interleave at the points where the code yields. *)
EXTENDS Integers, Sequences, FiniteSets, TLC

(***************************************************************************)
(* Bounds of the model.                                                    *)
(***************************************************************************)
MaxDocs == 3

MaxPage == 3

MaxSize == 2

MaxRequests == 2

(* The two request slots: FastAPI runs each request as its own task. *)
Procs == {"r1", "r2"}

(***************************************************************************)
(* Program constants.                                                      *)
(***************************************************************************)
FILM_CACHE_EXPIRE_IN_SECONDS == 300

(***************************************************************************)
(* Python strings are sequences of characters (or of fragments that hold   *)
(* no quote, backslash or slash).  str() and repr() are modelled by what   *)
(* they print.                                                             *)
(***************************************************************************)
SQ == "'"

DQ == "\""

BS == "\\"

S(frag) == <<frag>>

RECURSIVE Flatten(_)
Flatten(seqs) ==
    IF seqs = <<>> THEN <<>> ELSE Head(seqs) \o Flatten(Tail(seqs))

RECURSIVE Join(_, _)
Join(seqs, sep) ==
    IF seqs = <<>> THEN <<>>
    ELSE IF Len(seqs) = 1 THEN seqs[1]
    ELSE seqs[1] \o sep \o Join(Tail(seqs), sep)

(* repr of a str: single quotes, unless the text holds a single quote and  *)
(* no double quote; the chosen quote and the backslash are escaped.        *)
ReprStr(s) ==
    LET hasS == \E i \in 1..Len(s) : s[i] = SQ
        hasD == \E i \in 1..Len(s) : s[i] = DQ
        q    == IF hasS /\ ~hasD THEN DQ ELSE SQ
        esc(c) == IF c = q \/ c = BS THEN <<BS, c>> ELSE <<c>>
    IN  <<q>> \o Flatten([i \in 1..Len(s) |-> esc(s[i])]) \o <<q>>

RECURSIVE Digits(_)
Digits(n) ==
    LET d == <<"0", "1", "2", "3", "4", "5", "6", "7", "8", "9">>
    IN  IF n < 10 THEN <<d[n + 1]>> ELSE Digits(n \div 10) \o <<d[(n % 10) + 1]>>

(* str(int) *)
StrInt(n) == IF n < 0 THEN <<"-">> \o Digits(0 - n) ELSE Digits(n)

(* Python values: None, str, dict (insertion ordered), list, tuple. *)
PyNone == [t |-> "none"]

PyStr(s) == [t |-> "str", s |-> s]

PyDict(items) == [t |-> "dict", items |-> items]

PyList(xs) == [t |-> "list", xs |-> xs]

PyTuple(xs) == [t |-> "tuple", elts |-> xs]

(* str() of a Python value: for containers, the repr of the elements. *)
RECURSIVE Repr(_)
Repr(v) ==
    CASE v.t = "none" -> S("None")
      [] v.t = "str" -> ReprStr(v.s)
      [] v.t = "dict" ->
            S("{") \o Join([i \in 1..Len(v.items) |->
                               ReprStr(v.items[i][1]) \o S(": ") \o Repr(v.items[i][2])],
                           S(", ")) \o S("}")
      [] v.t = "list" ->
            S("[") \o Join([i \in 1..Len(v.xs) |-> Repr(v.xs[i])], S(", ")) \o S("]")
      [] v.t = "tuple" ->
            S("(") \o Join([i \in 1..Len(v.elts) |-> Repr(v.elts[i])], S(", "))
                   \o (IF Len(v.elts) = 1 THEN S(",") ELSE <<>>) \o S(")")

(***************************************************************************)
(* src/src/utils/formatters.py                                             *)
(***************************************************************************)
(* An absent keyword argument. *)
None == PyNone

(* Python truthiness of a keyword argument: None and "" are false. *)
Truthy(v) == ~(v = None) /\ ~(v.t = "str" /\ v.s = <<>>)

_get_search_query(params) ==
    PyDict(<<
        <<S("match"),
          PyDict(<< <<params[1],
                      PyDict(<< <<S("query"), PyStr(params[2])>>,
                                <<S("fuzziness"), PyStr(S("auto"))>> >>)>> >>)>>
    >>)

_get_filter_query(filter_param) ==
    PyDict(<<
        <<S("nested"),
          PyDict(<< <<S("path"), PyStr(S("genre"))>>,
                    <<S("query"),
                      PyDict(<< <<S("term"),
                                  PyDict(<< <<S("genre.id"), PyStr(filter_param.s)>> >>)>> >>)>>
                 >>)>>
    >>)

(* search_query is None or a (field, text) pair; genre_uuid is None or a   *)
(* str.  The must list is built in a fixed order.                          *)
(* the conjunction returned even when it is empty *)
QueryFormatter_format_empty_must(search_query, genre_uuid) ==
    LET must == (IF search_query # None
                 THEN <<_get_search_query(search_query.elts)>> ELSE <<>>)
             \o (IF Truthy(genre_uuid)
                 THEN <<_get_filter_query(genre_uuid)>> ELSE <<>>)
    IN  PyDict(<< <<S("bool"), PyDict(<< <<S("must"), PyList(must)>> >>)>> >>)

QueryFormatter_format(search_query, genre_uuid) ==
    LET must == (IF search_query # None
                 THEN <<_get_search_query(search_query.elts)>> ELSE <<>>)
             \o (IF Truthy(genre_uuid)
                 THEN <<_get_filter_query(genre_uuid)>> ELSE <<>>)
    IN  IF must # <<>>
        THEN PyDict(<< <<S("bool"), PyDict(<< <<S("must"), PyList(must)>> >>)>> >>)
        ELSE None

(* the descending marker left in the field name *)
_get_sort_query_keeping_marker(sort_param) ==
    IF Len(sort_param) > 0 /\ sort_param[1] = "-"
    THEN PyTuple(<<PyDict(<< <<sort_param, PyStr(S("desc"))>> >>)>>)
    ELSE PyTuple(<<PyDict(<< <<sort_param, PyStr(S("asc"))>> >>)>>)

_get_sort_query(sort_param) ==
    IF Len(sort_param) > 0 /\ sort_param[1] = "-"
    THEN PyTuple(<<PyDict(<< <<Tail(sort_param), PyStr(S("desc"))>> >>)>>)
    ELSE PyTuple(<<PyDict(<< <<sort_param, PyStr(S("asc"))>> >>)>>)

SortFormatter_format(sort) ==
    IF Truthy(sort)
    THEN _get_sort_query(sort.s)
    ELSE PyTuple(<<PyDict(<< <<S("_score"), PyStr(S("desc"))>> >>),
                   PyDict(<< <<S("id"), PyStr(S("asc"))>> >>)>>)

(***************************************************************************)
(* src/src/services/film.py: the cursor cache key.                         *)
(***************************************************************************)
(* the key without the filter: requests that differ in the filter alone    *)
(* would share their cursors                                               *)
_generate_record_key_without_filter(record_number, sort, filter_query) ==
    S("movies") \o S("/") \o Repr(sort) \o S("/") \o StrInt(record_number)

(* the key without the sort *)
_generate_record_key_without_sort(record_number, sort, filter_query) ==
    S("movies") \o S("/") \o StrInt(record_number) \o S("/") \o Repr(filter_query)

(* a cursor key in the format of the entity keys, built from the record    *)
(* number alone                                                            *)
_generate_record_key_as_entity_key(record_number, sort, filter_query) ==
    S("uuid-") \o StrInt(record_number)

_generate_record_key(record_number, sort, filter_query) ==
    S("movies") \o S("/") \o Repr(sort) \o S("/") \o StrInt(record_number) \o S("/")
                 \o Repr(filter_query)

(***************************************************************************)
(* src/src/models/film.py, src/src/models/mixins.py: the pydantic models.  *)
(* A JSON object or a keyword dict is a sequence of <<key, value>> pairs.  *)
(***************************************************************************)
Has(members, key) == \E i \in 1..Len(members) : members[i][1] = key

Get(members, key) ==
    members[CHOOSE i \in 1..Len(members) : members[i][1] = key][2]

(* A field with an alias is populated by its alias or, with                *)
(* populate_by_name=True, by its name.                                     *)
HasField(members, name, alias) == Has(members, alias) \/ Has(members, name)

GetField(members, name, alias) ==
    IF Has(members, alias) THEN Get(members, alias) ELSE Get(members, name)

ValidationError == [exc |-> "ValidationError"]

GenreInline_valid(m) == HasField(m, "uuid", "id") /\ Has(m, "name")

GenreInline(m) == [uuid |-> GetField(m, "uuid", "id"), name |-> Get(m, "name")]

PersonInline_valid(m) == HasField(m, "uuid", "id") /\ HasField(m, "full_name", "name")

PersonInline(m) ==
    [uuid |-> GetField(m, "uuid", "id"), full_name |-> GetField(m, "full_name", "name")]

(* Optional[list[PersonInline]] = None *)
Persons_valid(members, key) ==
    ~Has(members, key) \/ Get(members, key) = PyNone
        \/ \A i \in 1..Len(Get(members, key).xs) : PersonInline_valid(Get(members, key).xs[i])

Persons(members, key) ==
    IF ~Has(members, key) \/ Get(members, key) = PyNone THEN PyNone
    ELSE PyList([i \in 1..Len(Get(members, key).xs) |-> PersonInline(Get(members, key).xs[i])])

Film_valid(members) ==
    /\ HasField(members, "uuid", "id")
    /\ Has(members, "title")
    /\ Has(members, "genre")
    /\ \A i \in 1..Len(Get(members, "genre").xs) : GenreInline_valid(Get(members, "genre").xs[i])
    /\ Persons_valid(members, "actors")
    /\ Persons_valid(members, "writers")
    /\ Persons_valid(members, "directors")

(* Film built from members: unknown members are ignored, absent optional ones take *)
(* their defaults.                                                         *)
Film(members) ==
    [uuid |-> GetField(members, "uuid", "id"),
     title |-> Get(members, "title"),
     description |-> IF Has(members, "description") THEN Get(members, "description") ELSE PyNone,
     imdb_rating |-> IF Has(members, "imdb_rating") THEN Get(members, "imdb_rating") ELSE 0,
     genre |-> PyList([i \in 1..Len(Get(members, "genre").xs) |->
                          GenreInline(Get(members, "genre").xs[i])]),
     actors |-> Persons(members, "actors"),
     writers |-> Persons(members, "writers"),
     directors |-> Persons(members, "directors")]

(* JSON documents as stored in the cache. *)
JNull == [j |-> "null"]

JArray(items) == [j |-> "array", items |-> items]

JObject(members) == [j |-> "object", members |-> members]

(* bytes that are no JSON document *)
Garbage == [j |-> "garbage"]

Persons_dump(v) ==
    IF v = PyNone THEN PyNone
    ELSE PyList([i \in 1..Len(v.xs) |->
                    << <<"uuid", v.xs[i].uuid>>, <<"full_name", v.xs[i].full_name>> >>])

(* a dump that leaves the description out *)
model_dump_json_without_description(film) ==
    JObject(<< <<"uuid", film.uuid>>,
               <<"title", film.title>>,
               <<"imdb_rating", film.imdb_rating>>,
               <<"genre", PyList([i \in 1..Len(film.genre.xs) |->
                             << <<"uuid", film.genre.xs[i].uuid>>,
                                <<"name", film.genre.xs[i].name>> >>])>>,
               <<"actors", Persons_dump(film.actors)>>,
               <<"writers", Persons_dump(film.writers)>>,
               <<"directors", Persons_dump(film.directors)>> >>)

(* film.model_dump_json(): the fields by name, in declaration order. *)
model_dump_json(film) ==
    JObject(<< <<"uuid", film.uuid>>,
               <<"title", film.title>>,
               <<"description", film.description>>,
               <<"imdb_rating", film.imdb_rating>>,
               <<"genre", PyList([i \in 1..Len(film.genre.xs) |->
                             << <<"uuid", film.genre.xs[i].uuid>>,
                                <<"name", film.genre.xs[i].name>> >>])>>,
               <<"actors", Persons_dump(film.actors)>>,
               <<"writers", Persons_dump(film.writers)>>,
               <<"directors", Persons_dump(film.directors)>> >>)

(* Film.model_validate_json(data): a Film, or ValidationError. *)
model_validate_json(data) ==
    IF data.j = "object" /\ Film_valid(data.members) THEN Film(data.members)
    ELSE ValidationError

(* str(film.uuid) *)
StrUUID(u) == S("uuid-") \o StrInt(u)

(***************************************************************************)
(* orjson, as the service uses it for cursors.                             *)
(***************************************************************************)
JSONDecodeError == [exc |-> "JSONDecodeError"]

orjson_dumps(value) ==
    IF value = PyNone THEN JNull ELSE JArray(value.xs)

orjson_loads(data) ==
    CASE data.j = "null" -> PyNone
      [] data.j = "array" -> PyList(data.items)
      [] data.j = "object" -> PyDict(data.members)
      [] OTHER -> JSONDecodeError

(***************************************************************************)
(* The search engine: the index "movies" holds the documents 1..n.  The    *)
(* documents and their relevance are data of the model; the operations are *)
(* the ones the service calls (get, search with from_, search with         *)
(* search_after).                                                          *)
(***************************************************************************)
Term1 == <<"s", "t", "a", "r">>

Genre1 == S("g1")

Genre2 == S("g2")

Rating(i) == (i + 1) \div 2

GenresOf(i) == IF i % 2 = 1 THEN <<Genre1, Genre2>> ELSE <<Genre2>>

(* the score of document i for a fuzzy match of text against its title;    *)
(* 0: no match *)
Relevance(i, text) == IF text = Term1 /\ i % 3 # 0 THEN 1 + (i % 2) ELSE 0

(* the order in which the engine holds the documents internally, which     *)
(* breaks the ties of a sort: later ids first                              *)
InternalOrder(i) == 0 - i

DocSource(i) ==
    << <<"id", i>>,
       <<"imdb_rating", Rating(i)>>,
       <<"title", PyStr(S("The Star ") \o StrInt(i))>> >>
    \o (IF i % 2 = 0 THEN << <<"description", PyStr(S("New World"))>> >> ELSE <<>>)
    \o << <<"actors_names", PyList(<<S("Ann")>>)>>,
          <<"actors", PyList(<< << <<"id", 100 + i>>, <<"name", PyStr(S("Ann"))>> >> >>)>>,
          <<"genre", PyList([k \in 1..Len(GenresOf(i)) |->
                        << <<"id", GenresOf(i)[k]>>, <<"name", PyStr(GenresOf(i)[k])>> >>])>> >>

(* the clauses of {"bool": {"must": [...]}}; none for an absent query *)
Clauses(query) == IF query = None THEN <<>> ELSE query.items[1][2].items[1][2].xs

ClauseKind(clause) == clause.items[1][1]

(* {"match": {field: {"query": text, "fuzziness": "auto"}}} *)
MatchText(clause) == clause.items[1][2].items[1][2].items[1][2].s

(* {"nested": {"path": "genre", "query": {"term": {"genre.id": value}}}} *)
TermValue(clause) == clause.items[1][2].items[2][2].items[1][2].items[1][2].s

ClauseMatches(i, clause) ==
    IF ClauseKind(clause) = S("match") THEN Relevance(i, MatchText(clause)) > 0
    ELSE \E k \in 1..Len(GenresOf(i)) : GenresOf(i)[k] = TermValue(clause)

Matching(n, query) ==
    {i \in 1..n : \A c \in 1..Len(Clauses(query)) : ClauseMatches(i, Clauses(query)[c])}

(* _score: the relevance of the match clauses; a constant without any *)
Score(i, query) ==
    IF \E c \in 1..Len(Clauses(query)) : ClauseKind(Clauses(query)[c]) = S("match")
    THEN LET c == CHOOSE c \in 1..Len(Clauses(query)) : ClauseKind(Clauses(query)[c]) = S("match")
         IN  Relevance(i, MatchText(Clauses(query)[c]))
    ELSE 1

SortField(sort, k) == sort.elts[k].items[1][1]

SortOrder(sort, k) == sort.elts[k].items[1][2].s

FieldValue(i, field, query) ==
    CASE field = S("_score") -> Score(i, query)
      [] field = S("id") -> i
      [] field = S("imdb_rating") -> Rating(i)

(* the position token of a hit: its sort values *)
SortValues(i, sort, query) ==
    [k \in 1..Len(sort.elts) |-> FieldValue(i, SortField(sort, k), query)]

(* token a sorts strictly before token b under sort *)
Before(a, b, sort) ==
    \E k \in 1..Len(sort.elts) :
        /\ \A m \in 1..(k - 1) : a[m] = b[m]
        /\ IF SortOrder(sort, k) = S("desc") THEN a[k] > b[k] ELSE a[k] < b[k]

(* document i ranks before document j: by the sort, then by the engine's   *)
(* internal order                                                          *)
RanksBefore(i, j, sort, query) ==
    LET a == SortValues(i, sort, query)
        b == SortValues(j, sort, query)
    IN  Before(a, b, sort) \/ (a = b /\ InternalOrder(i) < InternalOrder(j))

RECURSIVE RankSet(_, _, _)
RankSet(docs, sort, query) ==
    IF docs = {} THEN <<>>
    ELSE LET first == CHOOSE i \in docs :
                          \A j \in docs \ {i} : RanksBefore(i, j, sort, query)
         IN  <<first>> \o RankSet(docs \ {first}, sort, query)

(* the matching documents in sort order *)
Ranked(n, sort, query) == RankSet(Matching(n, query), sort, query)

Hit(i, sort, query) ==
    [doc |-> i, sort |-> SortValues(i, sort, query), score |-> Score(i, query)]

Min(a, b) == IF a < b THEN a ELSE b

(* elastic.search(from_=from, size=size, sort=sort, query=query): hits *)
es_search_from(n, from, size, sort, query) ==
    LET r == Ranked(n, sort, query)
    IN  [k \in 1..(Min(from + size, Len(r)) - Min(from, Len(r))) |->
            Hit(r[from + k], sort, query)]

(* elastic.search(search_after=cursor, size=size, sort=sort, query=query): *)
(* the first size hits whose token sorts after the cursor; from the start  *)
(* for an absent cursor                                                    *)
es_search_after(n, search_after, size, sort, query) ==
    LET r == Ranked(n, sort, query)
        after == IF search_after = None THEN r
                 ELSE SelectSeq(r, LAMBDA i :
                          Before(search_after.xs, SortValues(i, sort, query), sort))
    IN  [k \in 1..Min(size, Len(after)) |-> Hit(after[k], sort, query)]

(* elastic.get(index="movies", id=id): raises NotFoundError for an id the  *)
(* index does not hold                                                     *)
es_found(n, id) == id \in 1..n

(***************************************************************************)
(* The state.                                                              *)
(***************************************************************************)
VARIABLES
    index,      \* the number of documents the index "movies" holds
    cache,      \* Redis: key -> [payload, ttl]
    origin,     \* per cursor key, the (record, sort, filter) its writer derived it under
    task,       \* per request slot, the running coroutine: its position and locals
    started     \* the number of requests accepted so far

vars == <<index, cache, origin, task, started>>

(* the keyword arguments the API layer passes *)
SortTokens == {None, PyStr(<<"-", "imdb_rating">>)}

(* search_query and genre_uuid: films_all passes a genre, search_films a   *)
(* (field, text) pair                                                      *)
FilterArgs ==
    {<<None, None>>, <<PyTuple(<<S("title"), Term1>>), None>>, <<None, PyStr(Genre1)>>}

NoResult == [status |-> "none", exc |-> "", films |-> <<>>, film |-> PyNone]

Returned(films, film) == [status |-> "ok", exc |-> "", films |-> films, film |-> film]

Raised(exc) == [status |-> "error", exc |-> exc, films |-> <<>>, film |-> PyNone]

IdleTask ==
    [op |-> "idle", pc |-> "idle",
     page_number |-> 0, size |-> 0, sort |-> None, search_query |-> None,
     genre_uuid |-> None, film_uuid |-> 0,
     sort_query |-> None, query |-> None,
     previous_record_number |-> 0, previous_record_key |-> <<>>,
     search_after |-> None, films_data |-> <<>>, film |-> PyNone,
     result |-> NoResult,
     \* bookkeeping of the calls the request made
     hit |-> FALSE, es_calls |-> 0, cache_writes |-> 0,
     wrote_previous |-> <<>>, cursor_origin |-> <<>>,
     \* the awaited call that raised a connectivity error ("": none)
     failed |-> "",
     \* the HTTP answer of a request made through the API: its status and
     \* the top-level members of its body
     response |-> [status |-> 0, members |-> {}]]

(* the order in which free slots take requests (slots are interchangeable) *)
ProcOrder == <<"r1", "r2">>

FirstFree(p) ==
    \E i \in 1..Len(ProcOrder) :
        /\ ProcOrder[i] = p
        /\ \A j \in 1..(i - 1) : task[ProcOrder[j]].op # "idle"

Init ==
    /\ index \in 0..MaxDocs
    /\ cache = <<>>
    /\ origin = <<>>
    /\ task = [p \in Procs |-> IdleTask]
    /\ started = 0

(* redis.set(key, value, ex): one atomic write that replaces the entry *)
redis_set(c, key, value, ex) ==
    [k \in DOMAIN c \cup {key} |-> IF k = key THEN [payload |-> value, ttl |-> ex] ELSE c[k]]

(* redis.exists(key) *)
redis_exists(c, key) == key \in DOMAIN c

Noted(o, key, record_number, sort, query) ==
    [k \in DOMAIN o \cup {key} |->
        IF k = key THEN [record_number |-> record_number, sort |-> sort, query |-> query]
        ELSE o[k]]

(* a request that ended: its locals are dropped, its arguments, result and *)
(* bookkeeping stay until the response is sent                             *)
Finish(t, result) ==
    [t EXCEPT !.pc = "done", !.result = result,
              !.search_after = None, !.films_data = <<>>, !.film = PyNone]

(***************************************************************************)
(* FilmService.get_page                                                    *)
(***************************************************************************)
(* the record before the next page instead of the one before this page *)
PreviousRecordNumber_of_next_page(page_number, size) == page_number * size - 1

(* the first record of the page instead of the record before it *)
PreviousRecordNumber_of_first_record(page_number, size) == (page_number - 1) * size

PreviousRecordNumber(page_number, size) == (page_number - 1) * size - 1

(* the record after the page's last instead of the page's last *)
FutureRecordNumber_past_the_page(previous_record_number, size) ==
    previous_record_number + size + 1

FutureRecordNumber(previous_record_number, size) == previous_record_number + size

(* lines 132-138: the request arrives; the formatters, the key of the      *)
(* record before the page, and the first await: _key_in_cache of that key. *)
(* On a miss for record -1 the lookup returns None without an engine call. *)
get_page(p, page_number, size, sort, search_query, genre_uuid) ==
    /\ task[p].op = "idle"
    /\ FirstFree(p)
    /\ started < MaxRequests
    /\ started' = started + 1
    /\ LET sort_query == SortFormatter_format(sort)
           query == QueryFormatter_format(search_query, genre_uuid)
           previous_record_number == PreviousRecordNumber(page_number, size)
           previous_record_key ==
               _generate_record_key(previous_record_number, sort_query, query)
           t == [IdleTask EXCEPT
                   !.op = "get_page",
                   !.page_number = page_number, !.size = size, !.sort = sort,
                   !.search_query = search_query, !.genre_uuid = genre_uuid,
                   !.sort_query = sort_query, !.query = query,
                   !.previous_record_number = previous_record_number,
                   !.previous_record_key = previous_record_key]
       IN  task' = [task EXCEPT ![p] =
              IF redis_exists(cache, previous_record_key)
              THEN [t EXCEPT !.pc = "get_search_after_from_cache", !.hit = TRUE]
              ELSE IF previous_record_number = -1
                   THEN [t EXCEPT !.pc = "put_search_after_to_cache", !.search_after = None]
                   ELSE [t EXCEPT !.pc = "get_search_after_from_elastic"]]
    /\ UNCHANGED <<index, cache, origin>>

(* _get_search_after_from_elastic, lines 103-119: None for record -1;      *)
(* IndexError when the lookup has no hit; else the hit's position token    *)
SearchAfterHasHit(n, previous_record, sort, filter_) ==
    Len(es_search_from(n, previous_record, 1, sort, filter_)) > 0

SearchAfterOfHit(n, previous_record, sort, filter_) ==
    LET data == es_search_from(n, previous_record, 1, sort, filter_)
    IN  IF sort = PyTuple(<<PyDict(<< <<S("_score"), PyStr(S("desc"))>> >>)>>)
        THEN PyList(<<data[1].score>>)
        ELSE PyList(data[1].sort)

(* the read done with GETEX: it renews the entry's time to live *)
get_search_after_from_cache_getex(p) ==
    /\ task[p].pc = "get_search_after_from_cache"
    /\ LET key == task[p].previous_record_key
       IN  /\ task' = [task EXCEPT ![p] =
                 IF ~redis_exists(cache, key)
                 THEN [@ EXCEPT !.pc = "search_after_films_from_elastic", !.search_after = None]
                 ELSE IF orjson_loads(cache[key].payload) = JSONDecodeError
                      THEN Finish(@, Raised("JSONDecodeError"))
                      ELSE [@ EXCEPT !.pc = "search_after_films_from_elastic",
                                     !.search_after = orjson_loads(cache[key].payload),
                                     !.cursor_origin = <<origin[key]>>]]
           /\ cache' = IF redis_exists(cache, key)
                       THEN [cache EXCEPT ![key].ttl = FILM_CACHE_EXPIRE_IN_SECONDS]
                       ELSE cache
    /\ UNCHANGED <<index, origin, started>>

(* line 139: _get_search_after_from_cache, lines 185-196 *)
get_search_after_from_cache(p) ==
    /\ task[p].pc = "get_search_after_from_cache"
    /\ LET key == task[p].previous_record_key
       IN  task' = [task EXCEPT ![p] =
              IF ~redis_exists(cache, key)
              THEN [@ EXCEPT !.pc = "search_after_films_from_elastic", !.search_after = None]
              ELSE IF orjson_loads(cache[key].payload) = JSONDecodeError
                   THEN Finish(@, Raised("JSONDecodeError"))
                   ELSE [@ EXCEPT !.pc = "search_after_films_from_elastic",
                                  !.search_after = orjson_loads(cache[key].payload),
                                  !.cursor_origin = <<origin[key]>>]]
    /\ UNCHANGED <<index, cache, origin, started>>

(* the lookup without its except clause: IndexError escapes get_page *)
get_search_after_from_elastic_without_except(p) ==
    /\ task[p].pc = "get_search_after_from_elastic"
    /\ LET t == task[p]
       IN  task' = [task EXCEPT ![p] =
              IF SearchAfterHasHit(index, t.previous_record_number, t.sort_query, t.query)
              THEN [@ EXCEPT !.pc = "put_search_after_to_cache",
                             !.es_calls = @ + 1,
                             !.search_after = SearchAfterOfHit(index, t.previous_record_number,
                                                               t.sort_query, t.query)]
              ELSE Finish([@ EXCEPT !.es_calls = @ + 1], Raised("IndexError"))]
    /\ UNCHANGED <<index, cache, origin, started>>

(* lines 141-144: the single-document lookup; IndexError ends the request  *)
(* with an empty page                                                      *)
get_search_after_from_elastic(p) ==
    /\ task[p].pc = "get_search_after_from_elastic"
    /\ LET t == task[p]
       IN  task' = [task EXCEPT ![p] =
              IF SearchAfterHasHit(index, t.previous_record_number, t.sort_query, t.query)
              THEN [@ EXCEPT !.pc = "put_search_after_to_cache",
                             !.es_calls = @ + 1,
                             !.search_after = SearchAfterOfHit(index, t.previous_record_number,
                                                               t.sort_query, t.query)]
              ELSE Finish([@ EXCEPT !.es_calls = @ + 1], Returned(<<>>, PyNone))]
    /\ UNCHANGED <<index, cache, origin, started>>

(* line 145: _put_search_after_to_cache, lines 198-206 *)
put_search_after_to_cache(p) ==
    /\ task[p].pc = "put_search_after_to_cache"
    /\ LET t == task[p]
       IN  /\ cache' = redis_set(cache, t.previous_record_key, orjson_dumps(t.search_after),
                                 FILM_CACHE_EXPIRE_IN_SECONDS)
           /\ origin' = Noted(origin, t.previous_record_key, t.previous_record_number,
                               t.sort_query, t.query)
           /\ task' = [task EXCEPT ![p].pc = "search_after_films_from_elastic",
                                   ![p].cache_writes = @ + 1,
                                   ![p].wrote_previous = <<orjson_dumps(t.search_after)>>]
    /\ UNCHANGED <<index, started>>

(* line 147: _search_after_films_from_elastic, lines 156-175 *)
search_after_films_from_elastic(p) ==
    /\ task[p].pc = "search_after_films_from_elastic"
    /\ LET t == task[p]
       IN  task' = [task EXCEPT ![p].pc = "key_in_cache_future",
                                ![p].es_calls = @ + 1,
                                ![p].films_data =
                                    es_search_after(index, t.search_after, t.size,
                                                    t.sort_query, t.query)]
    /\ UNCHANGED <<index, cache, origin, started>>

FutureSearchAfterKey(t) ==
    _generate_record_key(FutureRecordNumber(t.previous_record_number, t.size),
                         t.sort_query, t.query)

(* line 154 *)
FilmsOf(films_data) ==
    [k \in 1..Len(films_data) |-> Film(DocSource(films_data[k].doc))]

(* the pre-warm without its existence check: the key is always written *)
key_in_cache_future_unchecked(p) ==
    /\ task[p].pc = "key_in_cache_future"
    /\ task' = [task EXCEPT ![p] =
          IF task[p].films_data = <<>>
          THEN Finish(@, Raised("IndexError"))
          ELSE [@ EXCEPT !.pc = "put_future_search_after"]]
    /\ UNCHANGED <<index, cache, origin, started>>

(* lines 149-154: the existence check of the next page's key; when it is   *)
(* absent the argument films_data[-1]["sort"] is evaluated, which raises   *)
(* IndexError on an empty page                                             *)
key_in_cache_future(p) ==
    /\ task[p].pc = "key_in_cache_future"
    /\ LET t == task[p]
       IN  task' = [task EXCEPT ![p] =
              IF redis_exists(cache, FutureSearchAfterKey(t))
              THEN Finish(@, Returned(FilmsOf(t.films_data), PyNone))
              ELSE IF t.films_data = <<>>
                   THEN Finish(@, Raised("IndexError"))
                   ELSE [@ EXCEPT !.pc = "put_future_search_after"]]
    /\ UNCHANGED <<index, cache, origin, started>>

(* line 152: the token of the last hit, written under the next page's key *)
FutureSearchAfter(films_data) == PyList(films_data[Len(films_data)].sort)

put_future_search_after(p) ==
    /\ task[p].pc = "put_future_search_after"
    /\ LET t == task[p]
       IN  /\ cache' = redis_set(cache, FutureSearchAfterKey(t),
                                 orjson_dumps(FutureSearchAfter(t.films_data)),
                                 FILM_CACHE_EXPIRE_IN_SECONDS)
           /\ origin' = Noted(origin, FutureSearchAfterKey(t),
                               FutureRecordNumber(t.previous_record_number, t.size),
                               t.sort_query, t.query)
           /\ task' = [task EXCEPT ![p] =
                  Finish([@ EXCEPT !.cache_writes = @ + 1],
                         Returned(FilmsOf(t.films_data), PyNone))]
    /\ UNCHANGED <<index, started>>

(***************************************************************************)
(* FilmService.get_by_uuid                                                 *)
(***************************************************************************)
(* line 43: the request arrives and reads the cache: _film_from_cache,     *)
(* lines 62-73 *)
get_by_uuid(p, film_uuid) ==
    /\ task[p].op = "idle"
    /\ FirstFree(p)
    /\ started < MaxRequests
    /\ started' = started + 1
    /\ LET key == StrUUID(film_uuid)
           t == [IdleTask EXCEPT !.op = "get_by_uuid", !.film_uuid = film_uuid]
       IN  task' = [task EXCEPT ![p] =
              IF ~redis_exists(cache, key)
              THEN [t EXCEPT !.pc = "get_film_from_elastic"]
              ELSE IF model_validate_json(cache[key].payload) = ValidationError
                   THEN Finish(t, Raised("ValidationError"))
                   ELSE Finish([t EXCEPT !.hit = TRUE],
                               Returned(<<>>, model_validate_json(cache[key].payload)))]
    /\ UNCHANGED <<index, cache, origin>>

(* the engine lookup without its except clause: NotFoundError escapes *)
get_film_from_elastic_without_except(p) ==
    /\ task[p].pc = "get_film_from_elastic"
    /\ task' = [task EXCEPT ![p] =
          IF es_found(index, task[p].film_uuid)
          THEN [@ EXCEPT !.pc = "put_film_to_cache", !.es_calls = @ + 1,
                         !.film = Film(DocSource(task[p].film_uuid))]
          ELSE Finish([@ EXCEPT !.es_calls = @ + 1], Raised("NotFoundError"))]
    /\ UNCHANGED <<index, cache, origin, started>>

(* line 46: _get_film_from_elastic, lines 53-60: NotFoundError is absence *)
get_film_from_elastic(p) ==
    /\ task[p].pc = "get_film_from_elastic"
    /\ task' = [task EXCEPT ![p] =
          IF es_found(index, task[p].film_uuid)
          THEN [@ EXCEPT !.pc = "put_film_to_cache", !.es_calls = @ + 1,
                         !.film = Film(DocSource(task[p].film_uuid))]
          ELSE Finish([@ EXCEPT !.es_calls = @ + 1], Returned(<<>>, PyNone))]
    /\ UNCHANGED <<index, cache, origin, started>>

(* the write without its expiry argument: the entry never expires *)
put_film_to_cache_without_expire(p) ==
    /\ task[p].pc = "put_film_to_cache"
    /\ cache' = redis_set(cache, StrUUID(task[p].film.uuid), model_dump_json(task[p].film), -1)
    /\ task' = [task EXCEPT ![p] =
          Finish([@ EXCEPT !.cache_writes = @ + 1], Returned(<<>>, task[p].film))]
    /\ UNCHANGED <<index, origin, started>>

(* line 49: _put_film_to_cache, lines 75-83 *)
put_film_to_cache(p) ==
    /\ task[p].pc = "put_film_to_cache"
    /\ cache' = redis_set(cache, StrUUID(task[p].film.uuid), model_dump_json(task[p].film),
                          FILM_CACHE_EXPIRE_IN_SECONDS)
    /\ task' = [task EXCEPT ![p] =
          Finish([@ EXCEPT !.cache_writes = @ + 1], Returned(<<>>, task[p].film))]
    /\ UNCHANGED <<index, origin, started>>

(* the response is sent and the slot is free again *)
respond(p) ==
    /\ task[p].pc = "done"
    /\ task' = [task EXCEPT ![p] = IdleTask]
    /\ UNCHANGED <<index, cache, origin, started>>

Next ==
    \/ \E p \in Procs, page_number \in 1..MaxPage, size \in 1..MaxSize,
          sort \in SortTokens, f \in FilterArgs :
            get_page(p, page_number, size, sort, f[1], f[2])
    \/ \E p \in Procs : get_search_after_from_cache(p)
    \/ \E p \in Procs : get_search_after_from_elastic(p)
    \/ \E p \in Procs : put_search_after_to_cache(p)
    \/ \E p \in Procs : search_after_films_from_elastic(p)
    \/ \E p \in Procs : key_in_cache_future(p)
    \/ \E p \in Procs : put_future_search_after(p)
    \/ \E p \in Procs, film_uuid \in 1..(MaxDocs + 1) : get_by_uuid(p, film_uuid)
    \/ \E p \in Procs : get_film_from_elastic(p)
    \/ \E p \in Procs : put_film_to_cache(p)
    \/ \E p \in Procs : respond(p)

Spec == Init /\ [][Next]_vars

(***************************************************************************)
(* Cache corruption: the stored bytes of an entry are replaced by bytes    *)
(* that are no JSON document (section 7 of the specification,              *)
(* MalformedCursor).  At most MaxCorrupted entries are corrupt at a time.  *)
(***************************************************************************)
MaxCorrupted == 1

corrupt(key) ==
    /\ key \in DOMAIN cache
    /\ cache[key].payload # Garbage
    /\ Cardinality({k \in DOMAIN cache : cache[k].payload = Garbage}) < MaxCorrupted
    /\ cache' = [cache EXCEPT ![key].payload = Garbage]
    /\ UNCHANGED <<index, origin, task, started>>

NextFault ==
    \/ Next
    \/ \E key \in DOMAIN cache : corrupt(key)

SpecFault == Init /\ [][NextFault]_vars

(***************************************************************************)
(* Infrastructure failures: an awaited call of the Redis or Elasticsearch  *)
(* client raises a connectivity error.  get_page catches IndexError alone  *)
(* (line 143) and _get_film_from_elastic NotFoundError alone (line 58), so *)
(* the error leaves the coroutine at the await that raised it.             *)
(***************************************************************************)
(* the await a running request is suspended at raises *)
call_fails(p) ==
    /\ task[p].pc \notin {"idle", "done"}
    /\ task' = [task EXCEPT ![p] =
          Finish([@ EXCEPT !.failed = task[p].pc], Raised("ConnectionError"))]
    /\ UNCHANGED <<index, cache, origin, started>>

(* line 138: the first _key_in_cache of a get_page request raises *)
get_page_key_in_cache_fails(p, page_number, size, sort, search_query, genre_uuid) ==
    /\ task[p].op = "idle"
    /\ FirstFree(p)
    /\ started < MaxRequests
    /\ started' = started + 1
    /\ LET sort_query == SortFormatter_format(sort)
           query == QueryFormatter_format(search_query, genre_uuid)
           previous_record_number == PreviousRecordNumber(page_number, size)
           t == [IdleTask EXCEPT
                   !.op = "get_page",
                   !.page_number = page_number, !.size = size, !.sort = sort,
                   !.search_query = search_query, !.genre_uuid = genre_uuid,
                   !.sort_query = sort_query, !.query = query,
                   !.previous_record_number = previous_record_number,
                   !.previous_record_key =
                       _generate_record_key(previous_record_number, sort_query, query),
                   !.failed = "key_in_cache"]
       IN  task' = [task EXCEPT ![p] = Finish(t, Raised("ConnectionError"))]
    /\ UNCHANGED <<index, cache, origin>>

(* line 43, line 67: the redis.get of _film_from_cache raises *)
film_from_cache_fails(p, film_uuid) ==
    /\ task[p].op = "idle"
    /\ FirstFree(p)
    /\ started < MaxRequests
    /\ started' = started + 1
    /\ task' = [task EXCEPT ![p] =
          Finish([IdleTask EXCEPT !.op = "get_by_uuid", !.film_uuid = film_uuid,
                                  !.failed = "film_from_cache"],
                 Raised("ConnectionError"))]
    /\ UNCHANGED <<index, cache, origin>>

NextInfra ==
    \/ Next
    \/ \E p \in Procs : call_fails(p)
    \/ \E p \in Procs, page_number \in 1..MaxPage, size \in 1..MaxSize,
          sort \in SortTokens, f \in FilterArgs :
            get_page_key_in_cache_fails(p, page_number, size, sort, f[1], f[2])
    \/ \E p \in Procs, film_uuid \in 1..(MaxDocs + 1) : film_from_cache_fails(p, film_uuid)

SpecInfra == Init /\ [][NextInfra]_vars

(***************************************************************************)
(* Time: Redis counts an entry's time to live down and drops the entry     *)
(* when it reaches zero.  The clock advances in steps of TickSeconds.      *)
(***************************************************************************)
TickSeconds == 150

tick ==
    /\ cache # <<>>
    /\ cache' = [k \in {key \in DOMAIN cache : cache[key].ttl > TickSeconds} |->
                    [cache[k] EXCEPT !.ttl = @ - TickSeconds]]
    /\ origin' = [k \in {key \in DOMAIN origin : cache[key].ttl > TickSeconds} |-> origin[k]]
    /\ UNCHANGED <<index, task, started>>

NextTTL ==
    \/ Next
    \/ tick

SpecTTL == Init /\ [][NextTTL]_vars

(***************************************************************************)
(* src/src/api/v1/films.py: the handlers that ask the service for a page.  *)
(***************************************************************************)
(* the attributes an instance of FilmService has (film.py, lines 19-206) *)
FilmService_attrs ==
    {"sort_formatter", "query_formatter", "redis", "elastic",
     "get_by_uuid", "_get_film_from_elastic", "_film_from_cache", "_put_film_to_cache",
     "_generate_record_key", "_get_search_after_from_elastic", "get_page",
     "_search_after_films_from_elastic", "_key_in_cache", "_get_search_after_from_cache",
     "_put_search_after_to_cache"}

(* an exception that leaves a handler: the server answers 500 with a body  *)
(* that is no JSON object                                                  *)
InternalServerError == [status |-> 500, members |-> {}]

(* search_films, lines 60-79: film_service.search_films_paginated is       *)
(* looked up at line 67; FilmService has no such attribute, so the lookup  *)
(* raises AttributeError before any call is made                           *)
search_films(p, query, page_number, size) ==
    /\ task[p].op = "idle"
    /\ FirstFree(p)
    /\ started < MaxRequests
    /\ started' = started + 1
    /\ "search_films_paginated" \notin FilmService_attrs
    /\ task' = [task EXCEPT ![p] =
          Finish([IdleTask EXCEPT !.op = "search_films",
                                  !.page_number = page_number, !.size = size,
                                  !.search_query = PyTuple(<<S("title"), query>>),
                                  !.response = InternalServerError],
                 Raised("AttributeError"))]
    /\ UNCHANGED <<index, cache, origin>>

(* films_all, lines 14-44: the same lookup at line 32 *)
films_all(p, page_number, size, sort, genre_uuid) ==
    /\ task[p].op = "idle"
    /\ FirstFree(p)
    /\ started < MaxRequests
    /\ started' = started + 1
    /\ "search_films_paginated" \notin FilmService_attrs
    /\ task' = [task EXCEPT ![p] =
          Finish([IdleTask EXCEPT !.op = "films_all",
                                  !.page_number = page_number, !.size = size,
                                  !.sort = sort, !.genre_uuid = genre_uuid,
                                  !.response = InternalServerError],
                 Raised("AttributeError"))]
    /\ UNCHANGED <<index, cache, origin>>

(* the texts a search request may carry *)
SearchTexts == {Term1, <<"m", "o", "o", "n">>}

NextAPI ==
    \/ \E p \in Procs, query \in SearchTexts, page_number \in 1..MaxPage, size \in 1..MaxSize :
            search_films(p, query, page_number, size)
    \/ \E p \in Procs, page_number \in 1..MaxPage, size \in 1..MaxSize,
          sort \in SortTokens, genre_uuid \in {None, PyStr(Genre1)} :
            films_all(p, page_number, size, sort, genre_uuid)
    \/ \E p \in Procs : respond(p)

SpecAPI == Init /\ [][NextAPI]_vars

(***************************************************************************)
(* The formatters on their own: the format method of SortFormatter and of  *)
(* QueryFormatter applied to the keyword arguments a caller may pass, as   *)
(* get_page applies them at lines 132-133.                                 *)
(***************************************************************************)
SortInputs ==
    {None, PyStr(<<"imdb_rating">>), PyStr(<<"-", "imdb_rating">>),
     PyStr(<<"title">>), PyStr(<<"-", "title">>)}

SearchInputs ==
    {None, PyTuple(<<S("title"), Term1>>), PyTuple(<<S("title"), <<"m", "o", "o", "n">> >>),
     PyTuple(<<S("description"), Term1>>)}

GenreInputs == {None, PyStr(Genre1), PyStr(Genre2)}

format(p, sort, search_query, genre_uuid) ==
    /\ task[p].op = "idle"
    /\ FirstFree(p)
    /\ started < MaxRequests
    /\ started' = started + 1
    /\ task' = [task EXCEPT ![p] =
          Finish([IdleTask EXCEPT !.op = "format",
                                  !.sort = sort, !.search_query = search_query,
                                  !.genre_uuid = genre_uuid,
                                  !.sort_query = SortFormatter_format(sort),
                                  !.query = QueryFormatter_format(search_query, genre_uuid)],
                 Returned(<<>>, PyNone))]
    /\ UNCHANGED <<index, cache, origin>>

NextFormat ==
    \/ \E p \in Procs, sort \in SortInputs, search_query \in SearchInputs,
          genre_uuid \in GenreInputs :
            format(p, sort, search_query, genre_uuid)
    \/ \E p \in Procs : respond(p)

SpecFormat == Init /\ [][NextFormat]_vars

(***************************************************************************)
(* What the claims speak of.                                               *)
(***************************************************************************)
IsPage(p) == task[p].op = "get_page"

IsLookup(p) == task[p].op = "get_by_uuid"

Done(p) == task[p].pc = "done"

Offset(t) == (t.page_number - 1) * t.size

(* the matching records of a request in sort order, as the engine ranks    *)
(* them                                                                    *)
Records(t) == Ranked(index, t.sort_query, t.query)

(* the records at the 1-based positions offset+1 .. min(offset+size, N) *)
ExpectedPage(t) ==
    LET r == Records(t)
    IN  [k \in 1..(Min(Offset(t) + t.size, Len(r)) - Min(Offset(t), Len(r))) |->
            Film(DocSource(r[Offset(t) + k]))]

(* C1: against an unchanged index, a finished get_page(page_number, size)  *)
(* has returned exactly the records at positions offset+1 ..               *)
(* min(offset+size, N) of the matching records in sort order, whatever     *)
(* earlier get_page calls left in the cache.                               *)
C1_PageIsSliceOfRanking ==
    \A p \in Procs :
        (IsPage(p) /\ Done(p)) =>
            /\ task[p].result.status = "ok"
            /\ task[p].result.films = ExpectedPage(task[p])

(* C2: a finished get_page whose offset is at or past the number of        *)
(* matching records has returned the empty sequence and no error, and the  *)
(* pre-warm write is never reached with an empty page.                     *)
C2_PastTheEndIsEmpty ==
    \A p \in Procs :
        /\ (IsPage(p) /\ Done(p) /\ Offset(task[p]) >= Len(Records(task[p]))) =>
              /\ task[p].result.status = "ok"
              /\ task[p].result.films = <<>>
        /\ task[p].pc = "put_future_search_after" => task[p].films_data # <<>>

(* C3: every cursor cached under the key of (record k, sort, filter), k >= *)
(* 0, is the position token of the record the engine ranks at position k   *)
(* under that sort and filter.                                             *)
C3_CachedCursorIsTokenOfItsRecord ==
    \A key \in DOMAIN origin :
        LET o == origin[key]
            r == Ranked(index, o.sort, o.query)
        IN  o.record_number >= 0 =>
                /\ o.record_number < Len(r)
                /\ cache[key].payload =
                       orjson_dumps(PyList(SortValues(r[o.record_number + 1], o.sort, o.query)))

C5_WarmEqualsCold ==
    /\ \A p \in Procs :
          (IsLookup(p) /\ Done(p) /\ es_found(index, task[p].film_uuid)) =>
              /\ task[p].result.status = "ok"
              /\ task[p].result.film = Film(DocSource(task[p].film_uuid))
    /\ \A id \in 1..(MaxDocs + 1) :
          redis_exists(cache, StrUUID(id)) =>
              model_validate_json(cache[StrUUID(id)].payload) = Film(DocSource(id))

(* a lookup served from the warm cache *)
C5_Witness ==
    \E p \in Procs :
        /\ IsLookup(p) /\ Done(p) /\ task[p].hit
        /\ task[p].film_uuid % 2 = 0
        /\ task[p].es_calls = 0

(* C6: for an id the engine does not hold, every get_by_uuid returns       *)
(* absent and no error, writes nothing to the cache and queries the        *)
(* engine, on the first call and on every later one.                       *)
C6_NotFoundIsAbsentAndUncached ==
    /\ \A p \in Procs :
          (IsLookup(p) /\ Done(p) /\ ~es_found(index, task[p].film_uuid)) =>
              /\ task[p].result = Returned(<<>>, PyNone)
              /\ task[p].cache_writes = 0
              /\ task[p].es_calls = 1
              /\ ~task[p].hit
    /\ \A id \in 1..(MaxDocs + 1) :
          ~es_found(index, id) => ~redis_exists(cache, StrUUID(id))

(* the same missing id looked up twice *)
C6_Witness ==
    /\ started >= 2
    /\ \A p \in Procs :
          /\ IsLookup(p) /\ Done(p)
          /\ ~es_found(index, task[p].film_uuid)
    /\ \A p, q \in Procs : task[p].film_uuid = task[q].film_uuid

(* C7: the sort get_page hands to the engine always holds the unique       *)
(* tie-break field id.                                                     *)
C7_SortHasTieBreak ==
    \A p \in Procs :
        IsPage(p) =>
            \E k \in 1..Len(task[p].sort_query.elts) :
                SortField(task[p].sort_query, k) = S("id")

(* C8: requests with distinct (record, sort, filter) have distinct cursor  *)
(* keys, and a cursor a request reads from the cache was derived under the *)
(* request's own record number, sort and filter.                           *)
C8_CursorOfOwnSortAndFilter ==
    /\ \A p, q \in Procs :
          (/\ IsPage(p) /\ IsPage(q)
           /\ <<task[p].previous_record_number, task[p].sort_query, task[p].query>>
                # <<task[q].previous_record_number, task[q].sort_query, task[q].query>>) =>
              task[p].previous_record_key # task[q].previous_record_key
    /\ \A p \in Procs :
          (IsPage(p) /\ task[p].cursor_origin # <<>>) =>
              task[p].cursor_origin[1] =
                  [record_number |-> task[p].previous_record_number,
                   sort |-> task[p].sort_query, query |-> task[p].query]

(* a request that took its cursor from the cache and searched with it *)
C8_Witness ==
    \E p \in Procs :
        /\ IsPage(p) /\ task[p].cursor_origin # <<>>
        /\ task[p].previous_record_number >= 0
        /\ Done(p)
        /\ task[p].query # None

(* C9: requests with the same sort token, category id, search term and     *)
(* record offset compute the same cursor cache key, whatever the page      *)
(* number and size that give the offset and whatever the cache and the     *)
(* index hold.                                                             *)
C9_KeyIsFunctionOfInputs ==
    \A p, q \in Procs :
        (/\ IsPage(p) /\ IsPage(q)
         /\ task[p].sort = task[q].sort
         /\ task[p].search_query = task[q].search_query
         /\ task[p].genre_uuid = task[q].genre_uuid
         /\ Offset(task[p]) = Offset(task[q])) =>
            task[p].previous_record_key = task[q].previous_record_key

(* the same offset reached by two page numbers, the second key computed    *)
(* over a cache the first request had written to                           *)
C9_Witness ==
    \E p, q \in Procs :
        /\ IsPage(p) /\ IsPage(q)
        /\ task[p].sort = task[q].sort
        /\ task[p].search_query = task[q].search_query
        /\ task[p].genre_uuid = task[q].genre_uuid
        /\ Offset(task[p]) = Offset(task[q])
        /\ task[p].page_number # task[q].page_number
        /\ task[p].cache_writes > 0
        /\ task[q].hit

(* C10: a request never ends in a deserialization error: a cached payload  *)
(* that cannot be deserialized is treated as a miss.                       *)
C10_MalformedPayloadIsMiss ==
    \A p \in Procs :
        Done(p) => task[p].result.exc \notin {"JSONDecodeError", "ValidationError"}

(* C11: a get_page or get_by_uuid in which an engine or cache call raised   *)
(* a connectivity error ends with that error, never with a page or an      *)
(* absent entity; and a request in which no call failed never ends with    *)
(* an error: an exhausted page and an absent entity are results.           *)
C11_InfraErrorsPropagate ==
    \A p \in Procs :
        (Done(p) /\ (IsPage(p) \/ IsLookup(p))) =>
            /\ task[p].failed # "" => task[p].result = Raised("ConnectionError")
            /\ task[p].failed = "" => task[p].result.status = "ok"

(* C12: every step of a request that changes the cache is a write that     *)
(* gives the entry it sets a time to live of 300 seconds; a step that      *)
(* writes nothing (a get or an exists) leaves every entry's value and      *)
(* remaining lifetime as they were; and no step of a request removes an    *)
(* entry: entries leave the cache by expiry alone.                         *)
C12_FixedTtlNoSlidingNoDelete ==
    [][task' # task =>
          /\ \A key \in DOMAIN cache : key \in DOMAIN cache'
          /\ \A key \in DOMAIN cache' :
                (key \notin DOMAIN cache \/ cache'[key] # cache[key]) =>
                    /\ cache'[key].ttl = 300
                    /\ \E p \in Procs : task'[p].cache_writes = task[p].cache_writes + 1
          /\ (\A p \in Procs : task'[p].cache_writes <= task[p].cache_writes) =>
                cache' = cache]_vars

(* a request has read an aged cursor written by an earlier request and     *)
(* returned a page, and the entry is still as aged as it was               *)
C12_Witness ==
    \E p \in Procs :
        /\ IsPage(p) /\ Done(p) /\ task[p].hit
        /\ task[p].cursor_origin # <<>>
        /\ task[p].result.films # <<>>
        /\ redis_exists(cache, task[p].previous_record_key)
        /\ cache[task[p].previous_record_key].ttl < 300
        /\ task[p].previous_record_number >= 0

(* the page a search request asks for: the records its text matches, in    *)
(* the default order                                                       *)
SearchedPage(t) ==
    ExpectedPage([t EXCEPT !.sort_query = SortFormatter_format(None),
                           !.query = QueryFormatter_format(t.search_query, None)])

(* C13: a search request whose page holds at least one film is answered    *)
(* with status 200 and a body of exactly two top-level members.            *)
C13_SearchAnswers200WithTwoMembers ==
    \A p \in Procs :
        (task[p].op = "search_films" /\ Done(p) /\ SearchedPage(task[p]) # <<>>) =>
            /\ task[p].response.status = 200
            /\ Cardinality(task[p].response.members) = 2

(* the key of the record at position offset+size-1, the boundary of the    *)
(* next page                                                               *)
BoundaryKey(t) == _generate_record_key(Offset(t) + t.size - 1, t.sort_query, t.query)

NextPageOf(q, p) ==
    /\ IsPage(p) /\ IsPage(q)
    /\ task[q].page_number = task[p].page_number + 1
    /\ task[q].size = task[p].size
    /\ task[q].sort = task[p].sort
    /\ task[q].search_query = task[p].search_query
    /\ task[q].genre_uuid = task[p].genre_uuid

ReturnedPage(p) ==
    /\ IsPage(p) /\ Done(p)
    /\ task[p].result.status = "ok"
    /\ task[p].result.films # <<>>

(* the position token of the last film of a returned page *)
TokenOfLastFilm(t) ==
    PyList(SortValues(t.result.films[Len(t.result.films)].uuid, t.sort_query, t.query))

(* C14: while no entry expires, once a get_page(p, s) has returned a       *)
(* non-empty page the cache holds a cursor under the key of record         *)
(* offset+s-1, and the request spent no engine call on it: when it writes  *)
(* the key itself, it writes the token of the page's last hit; a           *)
(* get_page(p+1, s) with the same sort and filter that starts then finds   *)
(* the key, takes its cursor from the cache, makes no single-document      *)
(* query and ends having made exactly one engine call.                     *)
C14_PrewarmedNextPageNeedsOneEngineCall ==
    [][/\ \A p \in Procs :
             ReturnedPage(p)' =>
                 /\ redis_exists(cache', BoundaryKey(task'[p]))
                 /\ cache'[BoundaryKey(task'[p])].payload.j = "array"
                 /\ task'[p].es_calls =
                        IF task'[p].hit \/ task'[p].previous_record_number = -1 THEN 1 ELSE 2
                 /\ task[p].pc = "put_future_search_after" =>
                        /\ cache'[BoundaryKey(task'[p])].payload =
                               orjson_dumps(TokenOfLastFilm(task'[p]))
                        /\ task'[p].es_calls = task[p].es_calls
       /\ \A p, q \in Procs :
             (ReturnedPage(p) /\ task[q].op = "idle" /\ NextPageOf(q, p)') =>
                 /\ task'[q].hit
                 /\ task'[q].pc = "get_search_after_from_cache"
       /\ \A q \in Procs :
             (IsPage(q)' /\ task'[q].hit) =>
                 /\ task'[q].pc \notin {"get_search_after_from_elastic",
                                         "put_search_after_to_cache"}
                 /\ task'[q].pc \in {"key_in_cache_future", "put_future_search_after"} =>
                        task'[q].cursor_origin # <<>>
                 /\ Done(q)' => task'[q].es_calls = 1]_vars

(* page p was returned and pre-warmed, and the request for page p+1 that   *)
(* started afterwards has returned its page after one engine call          *)
C14_Witness ==
    \E p, q \in Procs :
        /\ ReturnedPage(p) /\ ReturnedPage(q) /\ NextPageOf(q, p)
        /\ ~task[p].hit /\ task[p].cache_writes = 2
        /\ task[q].hit /\ task[q].es_calls = 1 /\ task[q].cache_writes = 1
        /\ task[q].query # None

(* C15: a get_by_uuid served from the cache has returned the cached entity *)
(* with no engine call and no cache write; a get_by_uuid that missed the   *)
(* cache for an id the engine holds has made exactly one engine fetch and  *)
(* exactly one cache write, and when it returns the entity the cache holds *)
(* that entity under its id with a time to live of 300 seconds.            *)
C15_LookupEffects ==
    \A p \in Procs :
        (IsLookup(p) /\ Done(p)) =>
            /\ task[p].hit =>
                  /\ task[p].es_calls = 0
                  /\ task[p].cache_writes = 0
                  /\ redis_exists(cache, StrUUID(task[p].film_uuid))
                  /\ task[p].result =
                        Returned(<<>>, model_validate_json(cache[StrUUID(task[p].film_uuid)].payload))
            /\ (~task[p].hit /\ es_found(index, task[p].film_uuid)) =>
                  /\ task[p].es_calls = 1
                  /\ task[p].cache_writes = 1
                  /\ task[p].result = Returned(<<>>, Film(DocSource(task[p].film_uuid)))
                  /\ redis_exists(cache, StrUUID(task[p].film_uuid))
                  /\ cache[StrUUID(task[p].film_uuid)].ttl = 300
                  /\ model_validate_json(cache[StrUUID(task[p].film_uuid)].payload) =
                        task[p].result.film

(* a cold lookup that stored the entity, and a lookup of the same id       *)
(* served from the cache                                                   *)
C15_Witness ==
    \E p, q \in Procs :
        /\ IsLookup(p) /\ Done(p) /\ ~task[p].hit /\ task[p].cache_writes = 1
        /\ IsLookup(q) /\ Done(q) /\ task[q].hit
        /\ task[p].film_uuid = task[q].film_uuid

(* C16: a get_page for page_number = 1 never issues the single-document    *)
(* cursor query and runs its bounded search with an absent cursor, whether *)
(* the cache is cold or an earlier call has written the key of record -1;  *)
(* it ends having made exactly one engine call.                            *)
C16_FirstPageNeedsNoCursor ==
    \A p \in Procs :
        (IsPage(p) /\ task[p].page_number = 1) =>
            /\ task[p].previous_record_number = -1
            /\ task[p].pc # "get_search_after_from_elastic"
            /\ task[p].pc \in {"put_search_after_to_cache", "search_after_films_from_elastic",
                                "key_in_cache_future", "put_future_search_after"} =>
                  task[p].search_after = None
            /\ task[p].pc \in {"key_in_cache_future", "put_future_search_after"} =>
                  /\ task[p].es_calls = 1
                  /\ task[p].films_data =
                        es_search_from(index, 0, task[p].size, task[p].sort_query, task[p].query)
            /\ Done(p) => task[p].es_calls = 1

(* a first page served on a cold cache and the same first page served      *)
(* again from the key the first call wrote                                 *)
C16_Witness ==
    \E p, q \in Procs :
        /\ IsPage(p) /\ task[p].page_number = 1 /\ Done(p) /\ ~task[p].hit
        /\ IsPage(q) /\ task[q].page_number = 1 /\ task[q].hit
        /\ task[q].previous_record_key = task[p].previous_record_key
        /\ task[q].pc = "key_in_cache_future"
        /\ task[q].cursor_origin # <<>>
        /\ task[q].films_data # <<>>

(* C17: when the pre-warm step of a get_page finds the key of the next     *)
(* page's boundary in the cache, the request returns its page without a    *)
(* further step: it writes nothing, and the entry's value and remaining    *)
(* time to live are as they were.                                          *)
C17_PrewarmSkipsPresentKey ==
    [][\A p \in Procs :
          (/\ task[p].pc = "key_in_cache_future"
           /\ task'[p] # task[p]
           /\ redis_exists(cache, FutureSearchAfterKey(task[p]))) =>
              /\ Done(p)'
              /\ task'[p].result = Returned(FilmsOf(task[p].films_data), PyNone)
              /\ task'[p].cache_writes = task[p].cache_writes
              /\ cache' = cache]_vars

(* a request returned its page having written nothing, and the key of the  *)
(* next page's boundary is still in the cache with the lifetime an earlier *)
(* request and the clock left it                                           *)
C17_Witness ==
    \E p \in Procs :
        /\ ReturnedPage(p) /\ task[p].hit /\ task[p].cache_writes = 0
        /\ redis_exists(cache, FutureSearchAfterKey(task[p]))
        /\ cache[FutureSearchAfterKey(task[p])].ttl < 300

(* the keys get_by_uuid reads and writes *)
EntityKeys == {StrUUID(id) : id \in 1..(MaxDocs + 1)}

(* C18: no key a get_page request computes or has written is a key that    *)
(* get_by_uuid reads or writes; an entry under an entity key holds an      *)
(* entity, never a cursor, and an entry under a cursor key holds a cursor   *)
(* (an array or null), never an entity.                                    *)
C18_DisjointKeyNamespaces ==
    /\ DOMAIN origin \cap EntityKeys = {}
    /\ \A p \in Procs :
          IsPage(p) =>
              /\ task[p].previous_record_key \notin EntityKeys
              /\ FutureSearchAfterKey(task[p]) \notin EntityKeys
              /\ redis_exists(cache, task[p].previous_record_key) =>
                    cache[task[p].previous_record_key].payload.j \in {"array", "null"}
    /\ \A key \in DOMAIN cache :
          IF key \in EntityKeys
          THEN model_validate_json(cache[key].payload) # ValidationError
          ELSE /\ key \in DOMAIN origin
               /\ cache[key].payload.j \in {"array", "null"}

(* the cache holds an entity a lookup wrote and cursors a page request     *)
(* wrote, and both requests have returned                                  *)
C18_Witness ==
    \E p, q \in Procs :
        /\ IsLookup(p) /\ Done(p) /\ task[p].cache_writes = 1
        /\ redis_exists(cache, StrUUID(task[p].film_uuid))
        /\ ReturnedPage(q) /\ task[q].cache_writes = 2
        /\ task[q].previous_record_number >= 0

IsFormat(p) == task[p].op = "format"

(* a dict with exactly the given keys, in any order *)
HasExactly(d, keys) ==
    /\ d.t = "dict"
    /\ Len(d.items) = Cardinality(keys)
    /\ \A key \in keys : Has(d.items, key)

(* {"match": {field: {"query": text, "fuzziness": "auto"}}} *)
IsFuzzyMatch(clause, field, text) ==
    /\ HasExactly(clause, {S("match")})
    /\ HasExactly(Get(clause.items, S("match")), {field})
    /\ LET m == Get(Get(clause.items, S("match")).items, field)
       IN  /\ HasExactly(m, {S("query"), S("fuzziness")})
           /\ Get(m.items, S("query")) = PyStr(text)
           /\ Get(m.items, S("fuzziness")) = PyStr(S("auto"))

(* {"nested": {"path": "genre", "query": {"term": {"genre.id": id}}}} *)
IsNestedTerm(clause, id) ==
    /\ HasExactly(clause, {S("nested")})
    /\ LET n == Get(clause.items, S("nested"))
       IN  /\ HasExactly(n, {S("path"), S("query")})
           /\ Get(n.items, S("path")) = PyStr(S("genre"))
           /\ HasExactly(Get(n.items, S("query")), {S("term")})
           /\ LET term == Get(Get(n.items, S("query")).items, S("term"))
              IN  /\ HasExactly(term, {S("genre.id")})
                  /\ Get(term.items, S("genre.id")) = PyStr(id)

(* C19: QueryFormatter.format returns None exactly when neither a search   *)
(* term nor a category id is supplied; otherwise it returns {"bool":       *)
(* {"must": [...]}} whose clauses are a fuzzy match (fuzziness auto) of    *)
(* the term on the given field if a term is supplied, a nested exact match *)
(* of genre.id if a category id is supplied, and nothing else; equal       *)
(* inputs give equal results.                                              *)
C19_QueryFormat ==
    /\ \A p \in Procs :
          IsFormat(p) =>
              LET sq == task[p].search_query
                  g == task[p].genre_uuid
                  query == task[p].query
              IN  /\ (query = None) <=> (sq = None /\ g = None)
                  /\ query # None =>
                        /\ HasExactly(query, {S("bool")})
                        /\ HasExactly(Get(query.items, S("bool")), {S("must")})
                        /\ LET must == Get(Get(query.items, S("bool")).items, S("must"))
                           IN  /\ must.t = "list"
                               /\ Len(must.xs) = (IF sq # None THEN 1 ELSE 0)
                                                  + (IF g # None THEN 1 ELSE 0)
                               /\ sq # None =>
                                     \E k \in 1..Len(must.xs) :
                                         IsFuzzyMatch(must.xs[k], sq.elts[1], sq.elts[2])
                               /\ g # None =>
                                     \E k \in 1..Len(must.xs) : IsNestedTerm(must.xs[k], g.s)
    /\ \A p, q \in Procs :
          (/\ IsFormat(p) /\ IsFormat(q)
           /\ task[p].search_query = task[q].search_query
           /\ task[p].genre_uuid = task[q].genre_uuid) =>
              task[p].query = task[q].query

(* a search term and a category id formatted together, and a call with     *)
(* neither                                                                 *)
C19_Witness ==
    \E p, q \in Procs :
        /\ IsFormat(p) /\ task[p].search_query # None /\ task[p].genre_uuid # None
        /\ Len(Clauses(task[p].query)) = 2
        /\ IsFormat(q) /\ task[q].search_query = None /\ task[q].genre_uuid = None
        /\ task[q].query = None

(* C20: SortFormatter.format maps an absent sort token to (_score          *)
(* descending, id ascending), a token with a leading "-" to the one field  *)
(* named by the rest of the token, descending, and any other token to the  *)
(* one field it names, ascending.                                          *)
C20_SortFormat ==
    \A p \in Procs :
        IsFormat(p) =>
            LET sort == task[p].sort
                sq == task[p].sort_query
            IN  /\ sq.t = "tuple"
                /\ \A k \in 1..Len(sq.elts) : sq.elts[k].t = "dict" /\ Len(sq.elts[k].items) = 1
                /\ sort = None =>
                      /\ Len(sq.elts) = 2
                      /\ SortField(sq, 1) = S("_score") /\ SortOrder(sq, 1) = S("desc")
                      /\ SortField(sq, 2) = S("id") /\ SortOrder(sq, 2) = S("asc")
                /\ (sort # None /\ Head(sort.s) = "-") =>
                      /\ Len(sq.elts) = 1
                      /\ <<"-">> \o SortField(sq, 1) = sort.s
                      /\ SortOrder(sq, 1) = S("desc")
                /\ (sort # None /\ Head(sort.s) # "-") =>
                      /\ Len(sq.elts) = 1
                      /\ SortField(sq, 1) = sort.s
                      /\ SortOrder(sq, 1) = S("asc")

(* a descending token, an ascending token and an absent token formatted *)
C20_Witness ==
    \E p, q \in Procs :
        /\ IsFormat(p) /\ task[p].sort = PyStr(<<"-", "imdb_rating">>)
        /\ SortOrder(task[p].sort_query, 1) = S("desc")
        /\ IsFormat(q) /\ task[q].sort \in {None, PyStr(<<"imdb_rating">>)}
        /\ SortOrder(task[q].sort_query, Len(task[q].sort_query.elts)) = S("asc")

(* C21: whatever expires and whatever other requests do, a get_page for    *)
(* page_number > 1 never runs its bounded search with an absent cursor,    *)
(* and so never returns the records of the first page in place of its own. *)
C21_LaterPageNeverSearchesFromStart ==
    \A p \in Procs :
        (IsPage(p) /\ task[p].page_number > 1) =>
            /\ task[p].pc \in {"search_after_films_from_elastic", "key_in_cache_future",
                                "put_future_search_after"} =>
                  task[p].search_after # None
            /\ (Done(p) /\ task[p].result.status = "ok" /\ task[p].result.films # <<>>) =>
                  task[p].result.films[1] # Film(DocSource(Records(task[p])[1]))

(* C22: when the single-document lookup of a get_page finds no record at   *)
(* position offset-1 (fewer than offset records match), that step ends the *)
(* request with the empty sequence: the request has made that one engine   *)
(* call and no bounded search, has written nothing, and the cache is as it *)
(* was.                                                                    *)
C22_NoHitLookupReturnsEmptyUnchanged ==
    [][\A p \in Procs :
          (/\ task[p].pc = "get_search_after_from_elastic"
           /\ task'[p] # task[p]
           /\ Len(Records(task[p])) < Offset(task[p])) =>
              /\ Done(p)'
              /\ task'[p].result = Returned(<<>>, PyNone)
              /\ task'[p].es_calls = 1
              /\ task'[p].cache_writes = 0
              /\ cache' = cache]_vars

(* a request past the end of a non-empty result returned the empty         *)
(* sequence after its lookup, over a cache another request had filled      *)
C22_Witness ==
    \E p \in Procs :
        /\ IsPage(p) /\ Done(p) /\ ~task[p].hit
        /\ task[p].previous_record_number >= 0
        /\ Len(Records(task[p])) < Offset(task[p])
        /\ Len(Records(task[p])) > 0
        /\ task[p].result = Returned(<<>>, PyNone)
        /\ task[p].es_calls = 1 /\ task[p].cache_writes = 0
        /\ cache # <<>>

=============================================================================
